---- MODULE Spec2Model ----
(***************************************************************************)
(* Collection pipeline of netflow/wise_collector.py:                       *)
(*   QueuingUDPListener / QueuingRequestHandler  (reception, input queue)  *)
(*   ThreadedNetFlowListener.run                 (decode / retry loop)     *)
(*   ThreadedNetFlowListener.start/stop/join/get (lifecycle, output queue) *)
(*   get_export_packets                          (signal-driven iterator)  *)
(* The byte-level decoder parse_packet lives in netflow.utils, outside the *)
(* collector file; it is modelled from its contract (spec section 6).      *)
(***************************************************************************)
EXTENDS Integers, Sequences, FiniteSets, TLC

----------------------------------------------------------------------------
(* Program constants *)

\* wise_collector.py:33   PACKET_TIMEOUT = 60 * 60
PACKET_TIMEOUT == 60 * 60

\* wise_collector.py:154  export.header.version in [9, 10]
TemplateVersions == {9, 10}

\* decoder contract: the supported protocol identifiers
SupportedVersions == {1, 5, 9, 10}

----------------------------------------------------------------------------
(* Bounds of the model *)

\* datagrams received by the socket in one run
MaxPackets == 3
MaxRetryPackets == 4

\* repetitions of stop() and of join() by the controlling thread
MaxCalls == 2

\* signals delivered to the iterating thread in one run
MaxSignals == 2

\* readings of the wall clock: ages 0, 1, PACKET_TIMEOUT, PACKET_TIMEOUT + 1
Times == {0, PACKET_TIMEOUT, PACKET_TIMEOUT + 1}

----------------------------------------------------------------------------
(* Datagram payloads, as far as the decoder contract tells them apart:     *)
(* the version field, the template ids the datagram defines, the template  *)
(* ids its data records reference, and whether the bytes are malformed.    *)

Payload(v, d, r, m) == [version |-> v, defs |-> d, refs |-> r, malformed |-> m]

V5Export     == Payload(5, {}, {}, FALSE)
V9Template   == Payload(9, {256}, {}, FALSE)
V9Data       == Payload(9, {}, {256}, FALSE)
IpfixTemplate == Payload(10, {256}, {}, FALSE)
BadVersion   == Payload(99, {}, {}, FALSE)
Malformed    == Payload(9, {}, {}, TRUE)

\* (client address, payload) of the datagrams the exporters send
Datagrams ==
    { [client |-> "exporterA", data |-> V5Export],
      [client |-> "exporterA", data |-> V9Template],
      [client |-> "exporterB", data |-> V9Data],
      [client |-> "exporterB", data |-> IpfixTemplate],
      [client |-> "exporterA", data |-> BadVersion],
      [client |-> "exporterB", data |-> Malformed] }

LifeDatagrams == {d \in Datagrams : d.data \in {V9Template, V9Data, Malformed}}

\* wise_collector.py:29   RawPacket = namedtuple('RawPacket', ['ts', 'client', 'data'])
\* (id is the arrival number of the datagram at the socket, kept to tell
\*  equal datagrams apart)
RawPacket(i, t, c, d) == [id |-> i, ts |-> t, client |-> c, data |-> d]

\* wise_collector.py:30   ParsedPacket = namedtuple('ParsedPacket', ['ts', 'client', 'export'])
ParsedPacket(i, t, c, e) == [id |-> i, ts |-> t, client |-> c, export |-> e]

NoPacket == [id |-> 0]
NoExport == [version |-> 0]

----------------------------------------------------------------------------
(* The decoder contract: parse_packet(data, templates) *)

Family(v) == IF v = 10 THEN "ipfix" ELSE "netflow"

\* the outcome of parse_packet(data, templates)
ParseOutcome(data, tpl) ==
    IF data.version \notin SupportedVersions THEN "UnknownExportVersion"
    ELSE IF data.malformed THEN "Error"
    ELSE IF data.version \in TemplateVersions
            /\ ~(data.refs \subseteq tpl[Family(data.version)])
         THEN "TemplateNotRecognized"
    ELSE "Export"

\* the template store after a successful parse_packet(data, templates)
ParseTemplates(data, tpl) ==
    IF data.version \in TemplateVersions
    THEN [tpl EXCEPT ![Family(data.version)] = @ \cup data.defs]
    ELSE tpl

\* the export object a successful parse_packet(data, templates) returns
ParseExport(data, tpl) ==
    [version |-> data.version,
     contains_new_templates |->
         /\ data.version \in TemplateVersions
         /\ data.defs \ tpl[Family(data.version)] # {},
     defs |-> data.defs,
     refs |-> data.refs]

----------------------------------------------------------------------------
VARIABLES
    now,        \* time.time()
    nrecv,      \* datagrams received by the socket so far
    handlers,   \* request-handler threads that have not yet enqueued
    input,      \* self.input  (queue.Queue of RawPacket)
    output,     \* every ParsedPacket put on self.output, in order of the puts
    nget,       \* how many of them get() has handed out
    templates,  \* run(): templates
    to_retry,   \* run(): to_retry
    pkt,        \* run(): pkt
    export,     \* run(): export
    ri,         \* run(): position of the for loop over to_retry
    runpc,      \* position of the decode-loop thread
    crashed,    \* the decode-loop thread ended with an uncaught exception
    shutdown,   \* self._shutdown
    srvreq,     \* self.server: shutdown requested
    rxpc,       \* position of the reception thread (serve_forever)
    sock,       \* the UDP socket, and which thread closed it
    mainpc,     \* position of the controlling thread
    calls,      \* calls made by the controlling thread
    hist        \* record of past events

vars == <<now, nrecv, handlers, input, output, nget, templates, to_retry, pkt,
          export, ri, runpc, crashed, shutdown, srvreq, rxpc, sock, mainpc,
          calls, hist>>

pipeVars == <<input, output, templates, to_retry, pkt, export, ri, runpc, crashed>>

----------------------------------------------------------------------------
(* Initial states *)

PipeInit ==
    /\ now = 0
    /\ nrecv = 0
    /\ handlers = {}
    /\ input = <<>>
    /\ output = <<>>
    /\ nget = 0
    /\ templates = [f \in {"netflow", "ipfix"} |-> {}]
    /\ to_retry = <<>>
    /\ pkt = NoPacket
    /\ export = NoExport
    /\ ri = 0
    /\ runpc = "unstarted"
    /\ crashed = FALSE
    /\ shutdown = FALSE
    /\ srvreq = FALSE
    /\ hist = [missed |-> {}, dropped |-> {}, unsupported |-> {}, faulted |-> {},
               stale |-> {}, lateMiss |-> {}, stamp |-> {}, held |-> <<>>,
               pass |-> <<>>, trigger |-> 0, passes |-> 0,
               stopAt |-> "", stopId |-> 0, takenAfter |-> {}, putAfter |-> {}]

NoCalls == [started |-> FALSE, nstop |-> 0, njoin |-> 0,
            installed |-> FALSE, nsig |-> 0, sigAt |-> "", sigYield |-> 0,
            yielded |-> 0, cleanup |-> <<>>]

\* the state after ThreadedNetFlowListener(host, port): socket bound,
\* reception thread running, decode-loop thread not started
Init ==
    /\ PipeInit
    /\ rxpc = "serving"
    /\ sock = [state |-> "open", by |-> "none"]
    /\ mainpc = "idle"
    /\ calls = NoCalls

----------------------------------------------------------------------------
(* Environment: the clock and the exporters *)

Tick ==
    /\ \E t \in Times : t > now /\ now' = t
    /\ UNCHANGED <<nrecv, handlers, pipeVars, shutdown, srvreq, rxpc, sock,
                   nget, mainpc, calls, hist>>

----------------------------------------------------------------------------
(* Reception: QueuingUDPListener (socketserver.ThreadingUDPServer) *)

\* serve_forever receives one datagram, sent by one of the exporters ds, and
\* hands it to a new handler thread (ThreadingMixIn.process_request)
ReceiveUpTo(ds, n) ==
    /\ rxpc = "serving"
    /\ sock.state = "open"
    /\ nrecv < n
    /\ \E d \in ds :
          handlers' = handlers \cup
              {[id |-> nrecv + 1, client |-> d.client, data |-> d.data]}
    /\ nrecv' = nrecv + 1
    /\ UNCHANGED <<now, pipeVars, shutdown, srvreq, rxpc, sock, nget, mainpc,
                   calls, hist>>

ReceiveFrom(ds) == ReceiveUpTo(ds, MaxPackets)

Receive == ReceiveFrom(Datagrams)

\* the same with the exporters sending v9 templates, v9 data and malformed
\* datagrams only
ReceiveLife == ReceiveFrom(LifeDatagrams)

\* the same datagrams, one more of them, for the re-injection passes
ReceiveRetry == ReceiveUpTo(LifeDatagrams, MaxRetryPackets)

\* QueuingRequestHandler.handle, run by the handler thread of one datagram
Handle ==
    /\ \E h \in handlers :
          /\ input' = Append(input, RawPacket(h.id, now, h.client, h.data))
          /\ handlers' = handlers \ {h}
          /\ hist' = [hist EXCEPT !.stamp = @ \cup
                          {[id |-> h.id, ts |-> now, client |-> h.client]}]
    /\ UNCHANGED <<now, nrecv, output, templates, to_retry, pkt, export, ri,
                   runpc, crashed, shutdown, srvreq, rxpc, sock, nget, mainpc,
                   calls>>

\* serve_forever sees the shutdown request and returns; its thread ends
ServeExit ==
    /\ rxpc = "serving"
    /\ srvreq
    /\ rxpc' = "terminated"
    /\ UNCHANGED <<now, nrecv, handlers, pipeVars, shutdown, srvreq, sock, nget,
                   mainpc, calls, hist>>

----------------------------------------------------------------------------
(* The decode / retry loop: ThreadedNetFlowListener.run *)

Ids(seq) == {seq[k].id : k \in 1..Len(seq)}

\* the same ids in the order of the sequence
IdSeq(seq) == [k \in 1..Len(seq) |-> seq[k].id]

\* the loop test without the flag
LoopContinuesAlways(flag) == TRUE

\* line 123: while not self._shutdown.is_set()
LoopContinues(flag) == ~flag

\* the record of past events: packet p has an age above PACKET_TIMEOUT at t
AgeExceedsTimeout(p, t) == t - p.ts > PACKET_TIMEOUT

\* the age test with its operands exchanged
IsStaleSwapped(p, t) == p.ts - t > PACKET_TIMEOUT

\* line 138: time.time() - pkt.ts > PACKET_TIMEOUT
IsStale(p, t) == t - p.ts > PACKET_TIMEOUT

\* the test of line 154 without the test of contains_new_templates
ShouldReinjectAnyExport(e, retry) ==
    /\ e.version \in TemplateVersions
    /\ retry # <<>>

\* the test of line 154 with NetFlow v9 as the only version that re-injects
ShouldReinjectV9Only(e, retry) ==
    /\ e.version = 9
    /\ e.contains_new_templates
    /\ retry # <<>>

\* line 154: version in [9, 10] and contains_new_templates and to_retry
ShouldReinject(e, retry) ==
    /\ e.version \in TemplateVersions
    /\ e.contains_new_templates
    /\ retry # <<>>

RunCheck ==
    /\ runpc = "check"
    /\ runpc' = IF LoopContinues(shutdown) THEN "get" ELSE "shutdown"
    /\ UNCHANGED <<now, nrecv, handlers, input, output, nget, templates,
                   to_retry, pkt, export, ri, crashed, shutdown, srvreq, rxpc,
                   sock, mainpc, calls, hist>>

\* the get of line 126 returning the head of the queue without removing it
RunGetPeeks ==
    /\ runpc = "get"
    /\ input # <<>>
    /\ pkt' = Head(input)
    /\ input' = input
    /\ runpc' = "decode"
    /\ hist' = IF shutdown
               THEN [hist EXCEPT !.takenAfter = @ \cup {Head(input).id}]
               ELSE hist
    /\ UNCHANGED <<now, nrecv, handlers, output, nget, templates, to_retry,
                   export, ri, crashed, shutdown, srvreq, rxpc, sock, mainpc,
                   calls>>

\* line 126: self.input.get(block=True, timeout=0.5) returns a packet
RunGet ==
    /\ runpc = "get"
    /\ input # <<>>
    /\ pkt' = Head(input)
    /\ input' = Tail(input)
    /\ runpc' = "decode"
    /\ hist' = IF shutdown
               THEN [hist EXCEPT !.takenAfter = @ \cup {Head(input).id}]
               ELSE hist
    /\ UNCHANGED <<now, nrecv, handlers, output, nget, templates, to_retry,
                   export, ri, crashed, shutdown, srvreq, rxpc, sock, mainpc,
                   calls>>

\* lines 127-128: the get times out on an empty queue; continue
RunGetEmpty ==
    /\ runpc = "get"
    /\ input = <<>>
    /\ runpc' = "check"
    /\ UNCHANGED <<now, nrecv, handlers, input, output, nget, templates,
                   to_retry, pkt, export, ri, crashed, shutdown, srvreq, rxpc,
                   sock, mainpc, calls, hist>>

\* the unsupported-version handler keeping the packet for a retry
OnUnknownVersionRetries ==
    /\ runpc' = "check"
    /\ pkt' = NoPacket
    /\ to_retry' = Append(to_retry, pkt)
    /\ hist' = [hist EXCEPT !.unsupported = @ \cup {pkt.id}]
    /\ UNCHANGED <<templates, export, ri, crashed, input, output>>

\* lines 133-135: except UnknownExportVersion: log, continue
OnUnknownVersion ==
    /\ runpc' = "check"
    /\ pkt' = NoPacket
    /\ hist' = [hist EXCEPT !.unsupported = @ \cup {pkt.id}]
    /\ UNCHANGED <<templates, to_retry, export, ri, crashed, input, output>>

\* the packet, if this decode attempt finds it older than PACKET_TIMEOUT
LateNow(p, t) == IF AgeExceedsTimeout(p, t) THEN {p.id} ELSE {}

\* the template-miss handler without its continue: the packet goes on to
\* the output put of line 161
OnTemplateMissEmits ==
    /\ hist' = [hist EXCEPT !.missed = @ \cup {pkt.id}]
    /\ export' = ParseExport(pkt.data, templates)
    /\ runpc' = "emit"
    /\ UNCHANGED <<templates, to_retry, pkt, ri, crashed, input, output>>

\* the template-miss handler putting the packet straight back on the input
\* channel instead of holding it
OnTemplateMissRequeues ==
    /\ to_retry' = to_retry
    /\ input' = Append(input, pkt)
    /\ hist' = [hist EXCEPT !.missed = @ \cup {pkt.id},
                            !.lateMiss = @ \cup LateNow(pkt, now)]
    /\ runpc' = "check"
    /\ pkt' = NoPacket
    /\ UNCHANGED <<templates, export, ri, crashed, output>>

\* lines 136-144: except (V9TemplateNotRecognized, IPFIXTemplateNotRecognized)
OnTemplateMiss ==
    /\ IF IsStale(pkt, now)
       THEN /\ to_retry' = to_retry
            /\ hist' = [hist EXCEPT !.missed = @ \cup {pkt.id},
                                    !.dropped = @ \cup {pkt.id},
                                    !.lateMiss = @ \cup LateNow(pkt, now)]
       ELSE /\ to_retry' = Append(to_retry, pkt)
            /\ hist' = [hist EXCEPT !.missed = @ \cup {pkt.id},
                                    !.lateMiss = @ \cup LateNow(pkt, now)]
    /\ runpc' = "check"
    /\ pkt' = NoPacket
    /\ UNCHANGED <<templates, export, ri, crashed, input, output>>

\* any other exception of parse_packet is caught by no except clause of run:
\* the finally clause (line 162) runs and the thread ends with the exception
OnDecoderFault ==
    /\ runpc' = "shutdown"
    /\ crashed' = TRUE
    /\ pkt' = NoPacket
    /\ hist' = [hist EXCEPT !.faulted = @ \cup {pkt.id}]
    /\ UNCHANGED <<templates, to_retry, export, ri, input, output>>

\* lines 146-154: parse_packet returned an export
OnExport ==
    /\ templates' = ParseTemplates(pkt.data, templates)
    /\ export' = ParseExport(pkt.data, templates)
    /\ IF ShouldReinject(ParseExport(pkt.data, templates), to_retry)
       THEN /\ runpc' = "reinject"
            /\ ri' = 1
       ELSE /\ runpc' = "emit"
            /\ ri' = ri
    /\ hist' = [hist EXCEPT !.held = to_retry]
    /\ UNCHANGED <<to_retry, pkt, crashed, input, output>>

\* lines 130-154: parse_packet(pkt.data, templates) and what follows it
RunDecode ==
    /\ runpc = "decode"
    /\ CASE ParseOutcome(pkt.data, templates) = "UnknownExportVersion" ->
                OnUnknownVersion
         [] ParseOutcome(pkt.data, templates) = "TemplateNotRecognized" ->
                OnTemplateMiss
         [] ParseOutcome(pkt.data, templates) = "Error" ->
                OnDecoderFault
         [] OTHER -> OnExport
    /\ UNCHANGED <<now, nrecv, handlers, nget, shutdown, srvreq, rxpc, sock,
                   mainpc, calls>>

\* the pass of lines 157-159 followed by a continue: the export that started
\* it is not put on the output channel
RunReinjectThenContinue ==
    /\ runpc = "reinject"
    /\ input' = Append(input, to_retry[ri])
    /\ hist' = [hist EXCEPT
                   !.stale = IF AgeExceedsTimeout(to_retry[ri], now)
                             THEN @ \cup {to_retry[ri].id} ELSE @,
                   !.pass = IF ri = 1 THEN IdSeq(to_retry) ELSE @,
                   !.trigger = IF ri = 1 THEN pkt.id ELSE @,
                   !.passes = IF ri = 1 THEN @ + 1 ELSE @,
                   !.held = IF ri < Len(to_retry) THEN @ ELSE <<>>]
    /\ IF ri < Len(to_retry)
       THEN /\ ri' = ri + 1
            /\ UNCHANGED <<to_retry, runpc, pkt, export>>
       ELSE /\ ri' = 0
            /\ to_retry' = <<>>
            /\ pkt' = NoPacket
            /\ export' = NoExport
            /\ runpc' = "check"
    /\ UNCHANGED <<now, nrecv, handlers, output, nget, templates, crashed,
                   shutdown, srvreq, rxpc, sock, mainpc, calls>>

\* the pass of lines 157-159 iterating over reversed(to_retry)
RunReinjectReversed ==
    /\ runpc = "reinject"
    /\ input' = Append(input, to_retry[Len(to_retry) + 1 - ri])
    /\ hist' = [hist EXCEPT
                   !.stale = IF AgeExceedsTimeout(
                                     to_retry[Len(to_retry) + 1 - ri], now)
                             THEN @ \cup {to_retry[Len(to_retry) + 1 - ri].id}
                             ELSE @,
                   !.pass = IF ri = 1 THEN IdSeq(to_retry) ELSE @,
                   !.trigger = IF ri = 1 THEN pkt.id ELSE @,
                   !.passes = IF ri = 1 THEN @ + 1 ELSE @]
    /\ IF ri < Len(to_retry)
       THEN /\ ri' = ri + 1
            /\ UNCHANGED <<to_retry, runpc>>
       ELSE /\ ri' = 0
            /\ to_retry' = <<>>
            /\ runpc' = "emit"
    /\ UNCHANGED <<now, nrecv, handlers, output, nget, templates, pkt, export,
                   crashed, shutdown, srvreq, rxpc, sock, mainpc, calls>>

\* lines 157-159: for p in to_retry: self.input.put(p); then to_retry.clear()
RunReinject ==
    /\ runpc = "reinject"
    /\ input' = Append(input, to_retry[ri])
    /\ hist' = [hist EXCEPT
                   !.stale = IF AgeExceedsTimeout(to_retry[ri], now)
                             THEN @ \cup {to_retry[ri].id} ELSE @,
                   !.pass = IF ri = 1 THEN IdSeq(to_retry) ELSE @,
                   !.trigger = IF ri = 1 THEN pkt.id ELSE @,
                   !.passes = IF ri = 1 THEN @ + 1 ELSE @]
    /\ IF ri < Len(to_retry)
       THEN /\ ri' = ri + 1
            /\ UNCHANGED <<to_retry, runpc>>
       ELSE /\ ri' = 0
            /\ to_retry' = <<>>
            /\ runpc' = "emit"
    /\ UNCHANGED <<now, nrecv, handlers, output, nget, templates, pkt, export,
                   crashed, shutdown, srvreq, rxpc, sock, mainpc, calls>>

\* line 161: self.output.put(ParsedPacket(pkt.ts, pkt.client, export))
RunEmit ==
    /\ runpc = "emit"
    /\ output' = Append(output, ParsedPacket(pkt.id, pkt.ts, pkt.client, export))
    /\ pkt' = NoPacket
    /\ export' = NoExport
    /\ runpc' = "check"
    /\ hist' = [hist EXCEPT
                   !.putAfter = IF shutdown THEN @ \cup {pkt.id} ELSE @,
                   !.held = <<>>]
    /\ UNCHANGED <<now, nrecv, handlers, input, nget, templates, to_retry, ri,
                   crashed, shutdown, srvreq, rxpc, sock, mainpc, calls>>

\* line 164: self.server.shutdown() asks serve_forever to return ...
RunShutdown ==
    /\ runpc = "shutdown"
    /\ srvreq' = TRUE
    /\ runpc' = "shutdown_wait"
    /\ UNCHANGED <<now, nrecv, handlers, input, output, nget, templates,
                   to_retry, pkt, export, ri, crashed, shutdown, rxpc, sock,
                   mainpc, calls, hist>>

\* ... and blocks until it has
RunShutdownWait ==
    /\ runpc = "shutdown_wait"
    /\ rxpc = "terminated"
    /\ runpc' = "close"
    /\ UNCHANGED <<now, nrecv, handlers, input, output, nget, templates,
                   to_retry, pkt, export, ri, crashed, shutdown, srvreq, rxpc,
                   sock, mainpc, calls, hist>>

\* line 165: self.server.server_close(); run returns and the thread ends
RunClose ==
    /\ runpc = "close"
    /\ sock' = [state |-> "closed", by |-> "run"]
    /\ runpc' = "done"
    /\ UNCHANGED <<now, nrecv, handlers, input, output, nget, templates,
                   to_retry, pkt, export, ri, crashed, shutdown, srvreq, rxpc,
                   mainpc, calls, hist>>

Run ==
    \/ RunCheck
    \/ RunGet
    \/ RunGetEmpty
    \/ RunDecode
    \/ RunReinject
    \/ RunEmit
    \/ RunShutdown
    \/ RunShutdownWait
    \/ RunClose

----------------------------------------------------------------------------
(* The controlling thread using the listener directly: start, stop, join, get *)

\* threading.Thread.start(): the decode-loop thread begins run()
Start ==
    /\ mainpc = "idle"
    /\ ~calls.started
    /\ calls' = [calls EXCEPT !.started = TRUE]
    /\ runpc' = "check"
    /\ UNCHANGED <<now, nrecv, handlers, input, output, nget, templates,
                   to_retry, pkt, export, ri, crashed, shutdown, srvreq, rxpc,
                   sock, mainpc, hist>>

\* stop() closing the UDP socket itself
StopEffectCloses ==
    /\ shutdown' = TRUE
    /\ sock' = [state |-> "closed", by |-> "caller"]
    /\ hist' = IF shutdown THEN hist
               ELSE [hist EXCEPT !.stopAt = runpc, !.stopId = pkt.id]

\* lines 167-169: stop()
StopEffect ==
    /\ shutdown' = TRUE
    /\ sock' = sock
    /\ hist' = IF shutdown THEN hist
               ELSE [hist EXCEPT !.stopAt = runpc, !.stopId = pkt.id]

Stop ==
    /\ mainpc = "idle"
    /\ calls.nstop < MaxCalls
    /\ StopEffect
    /\ calls' = [calls EXCEPT !.nstop = @ + 1]
    /\ UNCHANGED <<now, nrecv, handlers, pipeVars, nget, srvreq, rxpc, mainpc>>

\* line 171: join() is entered, with timeout=None
JoinBegin ==
    /\ mainpc = "idle"
    /\ calls.njoin < MaxCalls
    /\ mainpc' = "join_thread"
    /\ UNCHANGED <<now, nrecv, handlers, pipeVars, nget, shutdown, srvreq, rxpc,
                   sock, calls, hist>>

\* line 172: self.thread.join() returns: the reception thread has ended
JoinThread ==
    /\ mainpc = "join_thread"
    /\ rxpc = "terminated"
    /\ mainpc' = "join_run"
    /\ UNCHANGED <<now, nrecv, handlers, pipeVars, nget, shutdown, srvreq, rxpc,
                   sock, calls, hist>>

\* join() without the wait for the decode-loop thread
JoinRunNoWait ==
    /\ mainpc = "join_run"
    /\ mainpc' = "idle"
    /\ calls' = [calls EXCEPT !.njoin = @ + 1]
    /\ UNCHANGED <<now, nrecv, handlers, pipeVars, nget, shutdown, srvreq, rxpc,
                   sock, hist>>

\* line 173: super().join(): RuntimeError on a thread that was never
\* started; otherwise returns when run() has ended
JoinRun ==
    /\ mainpc = "join_run"
    /\ IF runpc = "unstarted"
       THEN /\ mainpc' = "raised"
            /\ calls' = calls
       ELSE /\ runpc = "done"
            /\ mainpc' = "idle"
            /\ calls' = [calls EXCEPT !.njoin = @ + 1]
    /\ UNCHANGED <<now, nrecv, handlers, pipeVars, nget, shutdown, srvreq, rxpc,
                   sock, hist>>

\* lines 104-115: get() hands out the next ParsedPacket of the output queue
Get ==
    /\ mainpc = "idle"
    /\ nget < Len(output)
    /\ nget' = nget + 1
    /\ UNCHANGED <<now, nrecv, handlers, pipeVars, shutdown, srvreq, rxpc, sock,
                   mainpc, calls, hist>>

----------------------------------------------------------------------------
(* The controlling thread iterating get_export_packets (lines 176-195), with *)
(* the consumer loop of __main__ (lines 242-280)                             *)

IterInit ==
    /\ PipeInit
    /\ rxpc = "unborn"
    /\ sock = [state |-> "unbound", by |-> "none"]
    /\ mainpc = "install"
    /\ calls = NoCalls

\* lines 182-183: signal.signal(SIGTERM / SIGINT, handle_signal)
IterInstall ==
    /\ mainpc = "install"
    /\ calls' = [calls EXCEPT !.installed = TRUE]
    /\ mainpc' = "construct"
    /\ UNCHANGED <<now, nrecv, handlers, pipeVars, nget, shutdown, srvreq, rxpc,
                   sock, hist>>

\* line 185, lines 94-102: the listener is constructed: socket bound,
\* reception thread started
IterConstruct ==
    /\ mainpc = "construct"
    /\ rxpc' = "serving"
    /\ sock' = [state |-> "open", by |-> "none"]
    /\ mainpc' = "start"
    /\ UNCHANGED <<now, nrecv, handlers, pipeVars, nget, shutdown, srvreq,
                   calls, hist>>

\* line 186: listener.start() starts the decode-loop thread
IterStart ==
    /\ mainpc = "start"
    /\ calls' = [calls EXCEPT !.started = TRUE]
    /\ runpc' = "check"
    /\ mainpc' = "get"
    /\ UNCHANGED <<now, nrecv, handlers, input, output, nget, templates,
                   to_retry, pkt, export, ri, crashed, shutdown, srvreq, rxpc,
                   sock, hist>>

\* line 186: listener.start() raises (no thread can be started); the call is
\* outside the try statement of line 188, the exception leaves the generator
IterStartFails ==
    /\ mainpc = "start"
    /\ mainpc' = "exited"
    /\ UNCHANGED <<now, nrecv, handlers, pipeVars, nget, shutdown, srvreq, rxpc,
                   sock, calls, hist>>

\* line 190: listener.get() returns a packet, which is yielded
IterGet ==
    /\ mainpc = "get"
    /\ nget < Len(output)
    /\ nget' = nget + 1
    /\ calls' = [calls EXCEPT !.yielded = @ + 1]
    /\ mainpc' = "body"
    /\ UNCHANGED <<now, nrecv, handlers, pipeVars, shutdown, srvreq, rxpc, sock,
                   hist>>

\* lines 242-280: the consumer's loop body ends and asks for the next item
IterBody ==
    /\ mainpc = "body"
    /\ mainpc' = "get"
    /\ UNCHANGED <<now, nrecv, handlers, pipeVars, nget, shutdown, srvreq, rxpc,
                   sock, calls, hist>>

\* the consumer stops iterating: the generator is closed, GeneratorExit is
\* raised at the yield of line 190 and the finally clause of line 193 runs
IterClose ==
    /\ mainpc = "body"
    /\ mainpc' = "finally_stop"
    /\ UNCHANGED <<now, nrecv, handlers, pipeVars, nget, shutdown, srvreq, rxpc,
                   sock, calls, hist>>

\* where the controlling thread continues when handle_signal (lines 179-181)
\* raises StopIteration at position pc:
\*   lines 185-186 are outside the try: the exception leaves the generator;
\*   line 190 (inside listener.get()): except StopIteration, then finally;
\*   lines 243-278 (consumer body): caught and logged by "except Exception"
\*     of line 279, the for loop goes on to the next item;
\*   lines 194-195 (inside finally): the exception leaves the generator
AfterSignal(pc) ==
    CASE pc = "get" -> "finally_stop"
      [] pc = "body" -> "get"
      [] OTHER -> "exited"

\* SIGINT or SIGTERM is delivered once the handlers are installed
IterSignal ==
    /\ calls.installed
    /\ mainpc # "exited"
    /\ calls.nsig < MaxSignals
    /\ calls' = [calls EXCEPT !.nsig = @ + 1,
                              !.sigAt = IF @ = "" THEN mainpc ELSE @,
                              !.sigYield = IF calls.sigAt = "" THEN calls.yielded ELSE @]
    /\ mainpc' = AfterSignal(mainpc)
    /\ UNCHANGED <<now, nrecv, handlers, pipeVars, nget, shutdown, srvreq, rxpc,
                   sock, hist>>

\* line 194: listener.stop()
IterStop ==
    /\ mainpc = "finally_stop"
    /\ StopEffect
    /\ calls' = [calls EXCEPT !.cleanup = Append(@, "stop")]
    /\ mainpc' = "finally_join"
    /\ UNCHANGED <<now, nrecv, handlers, pipeVars, nget, srvreq, rxpc>>

\* line 195: listener.join() is entered
IterJoinBegin ==
    /\ mainpc = "finally_join"
    /\ calls' = [calls EXCEPT !.cleanup = Append(@, "join")]
    /\ mainpc' = "finally_join_thread"
    /\ UNCHANGED <<now, nrecv, handlers, pipeVars, nget, shutdown, srvreq, rxpc,
                   sock, hist>>

\* line 172: self.thread.join() returns
IterJoinThread ==
    /\ mainpc = "finally_join_thread"
    /\ rxpc = "terminated"
    /\ mainpc' = "finally_join_run"
    /\ UNCHANGED <<now, nrecv, handlers, pipeVars, nget, shutdown, srvreq, rxpc,
                   sock, calls, hist>>

\* line 173: super().join() returns; the generator returns
IterJoinRun ==
    /\ mainpc = "finally_join_run"
    /\ runpc = "done"
    /\ mainpc' = "exited"
    /\ calls' = [calls EXCEPT !.njoin = @ + 1]
    /\ UNCHANGED <<now, nrecv, handlers, pipeVars, nget, shutdown, srvreq, rxpc,
                   sock, hist>>

----------------------------------------------------------------------------
(* Specifications *)

\* the pipeline: exporters, reception, decode loop, on a listener that is
\* started and never stopped
Next ==
    \/ Tick
    \/ Receive
    \/ Handle
    \/ ServeExit
    \/ Run
    \/ Start

Spec == Init /\ [][Next]_vars

\* the threads are scheduled, and input.get() returns after 0.5 s at the latest
FairSpec == Spec /\ WF_vars(Run) /\ WF_vars(Handle) /\ WF_vars(ServeExit)

\* the pipeline at a fixed time, with enough datagrams for two held packets,
\* the export that re-injects them and a datagram received during the pass
RetryNext ==
    \/ ReceiveRetry
    \/ Handle
    \/ ServeExit
    \/ Run
    \/ Start

RetrySpec == Init /\ [][RetryNext]_vars

\* the lifecycle: start, stop, join and get called by a controlling thread
LifeNext ==
    \/ ReceiveLife
    \/ Handle
    \/ ServeExit
    \/ Run
    \/ Start
    \/ Stop
    \/ JoinBegin
    \/ JoinThread
    \/ JoinRun
    \/ Get

LifeSpec == Init /\ [][LifeNext]_vars

LiveSpec == LifeSpec /\ WF_vars(Run) /\ WF_vars(Handle) /\ WF_vars(ServeExit)

\* the signal-driven iterator
IterNext ==
    \/ ReceiveLife
    \/ Handle
    \/ ServeExit
    \/ Run
    \/ IterInstall
    \/ IterConstruct
    \/ IterStart
    \/ IterStartFails
    \/ IterGet
    \/ IterBody
    \/ IterClose
    \/ IterSignal
    \/ IterStop
    \/ IterJoinBegin
    \/ IterJoinThread
    \/ IterJoinRun

IterSpec == IterInit /\ [][IterNext]_vars

----------------------------------------------------------------------------
(* Properties of the pipeline (Spec, FairSpec) *)

Occurrences(seq, i) == Cardinality({k \in 1..Len(seq) : seq[k].id = i})

\* the template ids of the family of export e that are defined by e
DefinesFor(e, p) ==
    IF Family(e.version) = Family(p.version) /\ e.version \in TemplateVersions
    THEN e.defs ELSE {}

\* C1: a data packet that missed its template at a decode attempt is on the
\* output channel only behind a packet that carries the definition of every
\* template it references: it is never emitted before the decode loop has
\* processed the definition.
C1_RetrySafety ==
    \A k \in 1..Len(output) :
        output[k].id \in hist.missed =>
            \A T \in output[k].export.refs :
                \E j \in 1..(k - 1) : T \in DefinesFor(output[j].export, output[k].export)

\* a packet that missed its template has been emitted
C1_Witness ==
    \E k \in 1..Len(output) :
        output[k].id \in hist.missed /\ output[k].export.refs # {}

\* a packet of the RetryBuffer is being re-injected by a packet that defines
\* a template the held packet references
HeldAndDefined(i) ==
    /\ runpc = "reinject"
    /\ \E k \in 1..Len(to_retry) :
          /\ to_retry[k].id = i
          /\ to_retry[k].data.refs \subseteq templates[Family(to_retry[k].data.version)]

\* C2: a packet held in the RetryBuffer whose template is defined by a
\* packet the decode loop processes later is eventually put on the output
\* channel (stop() is never called in this specification), and no packet is
\* put there twice.
C2_RetryLiveness ==
    /\ \A i \in 1..MaxPackets : HeldAndDefined(i) ~> (i \in Ids(output))
    /\ [](\A i \in 1..MaxPackets : Occurrences(output, i) <= 1)

\* C3 as claimed: a packet that left the RetryBuffer on a retry pass with an
\* age above PACKET_TIMEOUT is never emitted.
C3_StaleNeverEmitted ==
    \A i \in hist.stale : i \notin Ids(output)

\* C3 as amended: a packet that leaves the RetryBuffer on a retry pass with an
\* age above PACKET_TIMEOUT never returns to the RetryBuffer: once re-attempted
\* it has been dropped (its template missed again) or emitted (its template
\* had become known); and a dropped packet is nowhere in the pipeline, in
\* particular never on the output channel.
C3_TimeoutEviction ==
    /\ \A i \in hist.stale :
          /\ runpc # "reinject" => i \notin Ids(to_retry)
          /\ \/ i \in Ids(input)
             \/ pkt.id = i
             \/ runpc = "reinject" /\ i \in Ids(to_retry)
             \/ i \in hist.dropped /\ i \notin Ids(output)
             \/ /\ i \in Ids(output)
                /\ i \notin hist.dropped
                /\ \A k \in 1..Len(output) :
                      output[k].id = i =>
                          output[k].export.refs \subseteq
                              templates[Family(output[k].export.version)]
    /\ \A i \in hist.dropped :
          /\ i \in hist.missed
          /\ i \notin Ids(output) \cup Ids(to_retry) \cup Ids(input)
          /\ pkt.id # i

\* a packet older than PACKET_TIMEOUT was re-injected on a retry pass and
\* dropped at its re-attempt
C3_Witness ==
    \E i \in hist.stale : i \in hist.dropped

\* C4: with no template miss, the packets are on the output channel in the
\* order in which their datagrams arrived at the socket.
C4_ArrivalOrder ==
    hist.missed = {} =>
        \A j, k \in 1..Len(output) : j < k => output[j].id < output[k].id

\* C5: after the decoder failed on a packet with another exception, the
\* decode loop is still running and the UDP listener is not shut down.
C5_FaultContained ==
    hist.faulted # {} =>
        /\ ~crashed
        /\ runpc \in {"check", "get", "decode", "reinject", "emit"}
        /\ ~srvreq
        /\ rxpc = "serving"
        /\ sock.state = "open"

\* C6: a packet of an unsupported version is never on the output channel nor
\* in the RetryBuffer, and the step that discards it leaves TemplateStore,
\* RetryBuffer and both channels unchanged and returns to the loop test.
C6_UnsupportedVersion ==
    /\ [](\A i \in hist.unsupported :
             i \notin Ids(output) \cup Ids(to_retry) \cup Ids(input))
    /\ [][(/\ runpc = "decode"
           /\ runpc' # "decode"
           /\ ParseOutcome(pkt.data, templates) = "UnknownExportVersion")
          => /\ runpc' = "check"
             /\ pkt.id \in hist'.unsupported
             /\ UNCHANGED <<templates, to_retry, input, output>>]_vars

\* a packet of an unsupported version was discarded and the loop is
\* emitting a packet it took after it
C6_Witness ==
    /\ hist.unsupported # {}
    /\ runpc = "emit"
    /\ pkt.id \notin hist.unsupported

\* a step that puts one more packet on the input channel
PutsOnInput == Len(input') > Len(input)

\* the put of a reception handler: the datagram of one handler thread,
\* stamped with the current time
PutByHandler ==
    \E h \in handlers :
        /\ handlers' = handlers \ {h}
        /\ input' = Append(input, RawPacket(h.id, now, h.client, h.data))

\* the put of a re-injection pass of the decode loop: the next held packet
PutByReinjection ==
    /\ runpc = "reinject"
    /\ handlers' = handlers
    /\ input' = Append(input, to_retry[ri])

\* C13 as stated: every put on the input channel is the put of a reception
\* handler.
C13_SoleWriter == [][PutsOnInput => PutByHandler]_vars

\* C13: every put on the input channel is the put of a reception handler or
\* the put of a held packet by a re-injection pass of the decode loop.
C13_TwoWriters == [][PutsOnInput => PutByHandler \/ PutByReinjection]_vars

C13_Witness ==
    /\ runpc = "reinject"
    /\ ri > 1
    /\ to_retry[ri - 1] = input[Len(input)]

\* the condition under which the export in flight re-injects the held packets
TriggersReinjection ==
    /\ export.version \in {9, 10}
    /\ export.contains_new_templates
    /\ hist.held # <<>>

\* the packet is waiting on the input channel, as it was stamped
OnInput(p) == \E k \in 1..Len(input) : input[k] = p

\* C14: when the decode loop has processed an export up to its output put,
\* then if the export is v9 or IPFIX with new templates and the RetryBuffer
\* was non-empty, every packet that was held is on the input channel and the
\* RetryBuffer is empty; otherwise the RetryBuffer is as it was when the
\* export was decoded, and the decode and the output put add nothing to the
\* input channel.
C14_WholeBufferReinjection ==
    /\ [](runpc = "emit" =>
             IF TriggersReinjection
             THEN /\ to_retry = <<>>
                  /\ \A k \in 1..Len(hist.held) : OnInput(hist.held[k])
             ELSE to_retry = hist.held)
    /\ [][runpc = "decode" /\ runpc' = "emit" => input' = input]_vars
    /\ [][runpc = "emit" /\ runpc' # "emit" =>
             input' = input /\ to_retry' = to_retry]_vars

C14_Witness ==
    /\ runpc = "emit"
    /\ TriggersReinjection
    /\ to_retry = <<>>
    /\ \E k \in 1..Len(hist.held) :
          /\ hist.held[k].client # pkt.client
          /\ OnInput(hist.held[k])

\* the ids of the re-injection pass in progress, or of the last one, in the
\* order in which the RetryBuffer held them
CurrentPass == IF runpc = "reinject" THEN IdSeq(to_retry) ELSE hist.pass

\* how many packets of that pass have been put back on the input channel
Reinjected == IF runpc = "reinject" THEN ri - 1 ELSE Len(hist.pass)

\* the packets of that pass waiting on the input channel, in channel order
PassOnInput ==
    IdSeq(SelectSeq(input,
                    LAMBDA p : \E k \in 1..Len(CurrentPass) :
                                  CurrentPass[k] = p.id))

\* C15: the packets of a re-injection pass that wait on the input channel are
\* a run of consecutive packets of the RetryBuffer, in RetryBuffer order,
\* that ends with the last packet put back: they were put back in that order
\* and are taken for their next decode attempt in that order, whatever the
\* reception handlers enqueue in between.
C15_FifoReinjection ==
    \E m \in 1..(Reinjected + 1) :
        PassOnInput = SubSeq(CurrentPass, m, Reinjected)

C15_Witness ==
    /\ Len(CurrentPass) >= 2
    /\ \E a, b, c \in 1..Len(input) :
          /\ a < b /\ b < c
          /\ input[a].id = CurrentPass[1]
          /\ input[c].id = CurrentPass[2]
          /\ input[b].id \notin hist.missed

\* the RetryBuffer after the step holds every packet it held before, at the
\* same place
KeepsHeldPackets ==
    /\ Len(to_retry') >= Len(to_retry)
    /\ SubSeq(to_retry', 1, Len(to_retry)) = to_retry

\* the step ends a re-injection pass started by a v9 or IPFIX export with new
\* templates
EndsReinjectionPass ==
    /\ runpc = "reinject"
    /\ export.version \in {9, 10}
    /\ export.contains_new_templates

\* C16: a step removes a packet from the RetryBuffer only at the end of a
\* re-injection pass started by an export with new templates: no other step,
\* the passing of time included, takes a held packet out, however old it is.
C16_NoProactiveEviction ==
    [][KeepsHeldPackets \/ EndsReinjectionPass]_vars

C16_Witness ==
    /\ runpc = "get"
    /\ \E k \in 1..Len(to_retry) : AgeExceedsTimeout(to_retry[k], now)

\* C17: every packet in the RetryBuffer has failed a decode attempt for an
\* unknown template, was at most PACKET_TIMEOUT old at its latest such
\* failure, has never failed for an unsupported version and has not been
\* decoded successfully.
C17_RetryMembership ==
    \A k \in 1..Len(to_retry) :
        /\ to_retry[k].id \in hist.missed
        /\ to_retry[k].id \notin hist.lateMiss
        /\ to_retry[k].id \notin hist.unsupported
        /\ to_retry[k].id \notin Ids(output)
        /\ to_retry[k].id # pkt.id

C17_Witness ==
    /\ runpc = "get"
    /\ \E k \in 1..Len(to_retry) :
          /\ now - to_retry[k].ts = PACKET_TIMEOUT
          /\ \E j \in 1..Len(hist.pass) : hist.pass[j] = to_retry[k].id

\* the datagrams the reception handlers have enqueued
Enqueued == {s.id : s \in hist.stamp}

\* the datagrams the decode loop has discarded: unsupported version, stale at
\* a template miss, or the decode attempt that ended the loop
Discarded == hist.unsupported \cup hist.dropped \cup hist.faulted

\* in how many places datagram i is, a packet counting as held from
\* position first of the RetryBuffer on
PlacesOf(i, first) ==
    Occurrences(input, i)
      + (IF pkt.id = i THEN 1 ELSE 0)
      + Cardinality({k \in first..Len(to_retry) : to_retry[k].id = i})
      + Occurrences(output, i)
      + (IF i \in Discarded THEN 1 ELSE 0)

\* every copy of a datagram carries the timestamp and the client stamped
\* when it was received
KeepsStamp(seq) ==
    \A k \in 1..Len(seq) :
        [id |-> seq[k].id, ts |-> seq[k].ts, client |-> seq[k].client]
            \in hist.stamp

StampsKept ==
    /\ KeepsStamp(input)
    /\ KeepsStamp(to_retry)
    /\ KeepsStamp(output)
    /\ pkt # NoPacket => KeepsStamp(<<pkt>>)

\* C18 as stated: in every state every enqueued datagram is in exactly one
\* of input channel, decode loop, RetryBuffer, output and discarded, and
\* carries its reception stamp.
C18_ExactlyOnePlace ==
    /\ \A i \in Enqueued : PlacesOf(i, 1) = 1
    /\ StampsKept

\* C18: the same, where during a re-injection pass the held packets already
\* put back on the input channel count as being on the input channel only,
\* although the RetryBuffer still lists them until the pass clears it.
C18_PacketConservation ==
    /\ \A i \in Enqueued :
          PlacesOf(i, IF runpc = "reinject" THEN ri ELSE 1) = 1
    /\ StampsKept

C18_Witness ==
    \E k \in 1..Len(output) :
        /\ output[k].id \in hist.missed
        /\ output[k].ts < now
        /\ \E j \in 1..Len(hist.pass) : hist.pass[j] = output[k].id

\* the packet was re-injected by the latest pass
InLastPass(i) == \E k \in 1..Len(hist.pass) : hist.pass[k] = i

\* C19: as long as the export that started the latest re-injection pass is
\* not on the output channel, it is the packet in flight and every packet of
\* the pass still waits, on the input channel or in the RetryBuffer, neither
\* taken for a new decode attempt nor output; on the output channel no
\* packet of the pass precedes that export.
C19_TemplatePacketFirst ==
    hist.trigger # 0 =>
        /\ hist.trigger \notin Ids(output) =>
              /\ pkt.id = hist.trigger
              /\ \A k \in 1..Len(hist.pass) :
                    /\ hist.pass[k] \notin Ids(output)
                    /\ Occurrences(input, hist.pass[k])
                         + Occurrences(to_retry, hist.pass[k]) >= 1
        /\ \A a, b \in 1..Len(output) :
              output[a].id = hist.trigger /\ InLastPass(output[b].id) => a < b

C19_Witness ==
    \E a, b \in 1..Len(output) :
        /\ output[a].id = hist.trigger
        /\ InLastPass(output[b].id)
        /\ a < b

\* the number of packets decoded successfully so far: those on the output
\* channel and the export in flight after its decode
Decoded == Len(output) + (IF runpc \in {"reinject", "emit"} THEN 1 ELSE 0)

\* C20: once the decode loop runs, the datagrams received being finitely
\* many, the input channel is eventually empty and stays empty, and at any
\* time the number of re-injection passes is at most the number of packets
\* decoded successfully.
C20_RetryQuiescence ==
    /\ <>[](calls.started => input = <<>>)
    /\ [](hist.passes <= Decoded)

----------------------------------------------------------------------------
(* Properties of the lifecycle (LifeSpec, LiveSpec) *)

\* C7 as claimed: after stop() has set the flag the decode loop takes no
\* packet from the input channel, and puts on the output channel at most the
\* packet whose decode was in progress when the flag was set.
C7_NothingAfterStop ==
    /\ hist.takenAfter = {}
    /\ hist.putAfter \subseteq {hist.stopId} \ {0}

\* C7 as amended: after stop() has set the flag the decode loop takes at
\* most one packet from the input channel, and only when the flag was set
\* while the loop was waiting in input.get() after its flag test; it puts at
\* most one packet on the output channel: that packet, or the one whose
\* decode was in progress when the flag was set.
C7_AtMostOneAfterStop ==
    /\ Cardinality(hist.takenAfter) <= 1
    /\ hist.takenAfter # {} => hist.stopAt = "get"
    /\ Cardinality(hist.putAfter) <= 1
    /\ hist.putAfter \subseteq hist.takenAfter \cup ({hist.stopId} \ {0})

\* a packet was taken from the input channel and put on the output channel
\* after stop() had set the flag
C7_Witness ==
    /\ hist.takenAfter # {}
    /\ hist.putAfter = hist.takenAfter

\* C8: once stop() has been called on a started listener, the decode loop
\* eventually exits with the reception loop stopped and the socket closed;
\* and in every state a closed socket implies that the reception loop has
\* stopped and that the decode-loop thread closed it.
C8_ShutdownProtocol ==
    /\ (shutdown /\ calls.started)
           ~> (runpc = "done" /\ rxpc = "terminated" /\ sock.state = "closed")
    /\ [](sock.state = "closed" => rxpc = "terminated" /\ sock.by = "run")
    /\ [](runpc \in {"close", "done"} => rxpc = "terminated")

\* stop() was called, the decode loop saw the flag (it did not die of a
\* decoder fault) and closed the socket
C8_Witness ==
    /\ calls.nstop > 0
    /\ ~crashed
    /\ runpc = "done"
    /\ sock.state = "closed"

\* C9: on a started listener no join() raises, and a join() without timeout
\* has returned only if the reception thread and the decode-loop thread have
\* both terminated.
C9_IdempotentJoin ==
    /\ mainpc = "raised" => ~calls.started
    /\ calls.njoin > 0 => (rxpc = "terminated" /\ runpc = "done")

\* stop() and join() without timeout have each been called and have returned
\* twice
C9_Witness ==
    /\ calls.nstop >= 2
    /\ calls.njoin >= 2

----------------------------------------------------------------------------
(* Properties of the iterator (IterSpec) *)

\* C10: when the iterator has been left after the listener was constructed,
\* stop() and then join() have each been executed exactly once.
C10_CleanupOnce ==
    (mainpc = "exited" /\ rxpc # "unborn") => calls.cleanup = <<"stop", "join">>

\* C11: once a signal has been delivered while the iterating thread was
\* blocked in get() or executing the consumer's loop body, the iteration has
\* ended: no further packet is yielded and the thread is in the cleanup of
\* the iterator or past it.
C11_SignalEndsIteration ==
    calls.sigAt \in {"get", "body"} =>
        /\ calls.yielded = calls.sigYield
        /\ mainpc \in {"finally_stop", "finally_join", "finally_join_thread",
                       "finally_join_run", "exited"}

----------------------------------------------------------------------------
(* Properties of the Listening state (LiveSpec) *)

\* C12: once stop() has been called on a listener on which start() is never
\* called, the reception loop eventually terminates and the socket is closed.
C12_StopWhileListening ==
    (shutdown /\ ~calls.started)
        ~> (calls.started \/ (rxpc = "terminated" /\ sock.state = "closed"))

====
